---- MODULE Spec2Model ----
(***************************************************************************)
(* Model of start_services.py: one run of main() is the fixed sequence     *)
(* clone_supabase_repo, prepare_supabase_env, generate_searxng_secret_key, *)
(* check_and_fix_docker_compose_for_searxng, stop_existing_containers,     *)
(* start_supabase, time.sleep(10), start_local_ai.  The files, the git     *)
(* mirror and the SearXNG container outlive a run, so the model chains     *)
(* several runs.  File contents and subprocess output are sequences of     *)
(* one-character strings, and Python's str operations are computed on      *)
(* them character by character.                                            *)
(***************************************************************************)
EXTENDS Integers, Sequences, FiniteSets, TLC

\* ------------------------------------------------------------------------
\* Bounds
\* ------------------------------------------------------------------------
MaxRuns == 3

\* ------------------------------------------------------------------------
\* Text constants of the program
\* ------------------------------------------------------------------------
NL == "\n"
CR == "\r"

CapDropActive == <<"c","a","p","_","d","r","o","p",":"," ","-"," ","A","L","L">>
CapDropCommented == <<"#"," ","c","a","p","_","d","r","o","p",":"," ","-"," ","A","L","L"," "," ","#"," ","T","e","m","p","o","r","a","r","i","l","y"," ","c","o","m","m","e","n","t","e","d"," ","o","u","t"," ","f","o","r"," ","f","i","r","s","t"," ","r","u","n">>
Placeholder == <<"u","l","t","r","a","s","e","c","r","e","t","k","e","y">>
FoundText == <<"f","o","u","n","d">>
EchoFound == <<"f","o","u","n","d",NL>>
EchoNotFound == <<"n","o","t","_","f","o","u","n","d",NL>>
ContainerName == <<"s","e","a","r","x","n","g">>
HexDigits == <<"0","1","2","3","4","5","6","7","8","9","a","b","c","d","e","f">>
SleepSeconds == 10
RandomBytes == 32
ProfileChoices == {"cpu", "gpu-nvidia", "gpu-amd", "none"}
DefaultProfile == "cpu"

\* ------------------------------------------------------------------------
\* Python str operations on character sequences
\* ------------------------------------------------------------------------
Whitespace == {" ", NL, CR, "\t"}

\* the positions at which sub occurs in s
Occurrences(s, sub) ==
    {i \in 1..(Len(s) - Len(sub) + 1) : SubSeq(s, i, i + Len(sub) - 1) = sub}

Min(S) == CHOOSE i \in S : \A j \in S : i <= j
Max(S) == CHOOSE i \in S : \A j \in S : i >= j

\* sub in s
Contains(s, sub) == Occurrences(s, sub) # {}

\* s.replace(old, new): every non-overlapping occurrence, left to right
RECURSIVE Replace(_, _, _)
Replace(s, old, new) ==
    IF Occurrences(s, old) = {} THEN s
    ELSE LET i == Min(Occurrences(s, old))
         IN  SubSeq(s, 1, i - 1) \o new
                 \o Replace(SubSeq(s, i + Len(old), Len(s)), old, new)

\* s.strip(): without the leading and trailing whitespace
Strip(s) ==
    LET keep == {i \in 1..Len(s) : s[i] \notin Whitespace}
    IN  IF keep = {} THEN <<>> ELSE SubSeq(s, Min(keep), Max(keep))

\* s.split(sep) for a one-character separator: always at least one field
RECURSIVE Split(_, _)
Split(s, sep) ==
    IF Occurrences(s, <<sep>>) = {} THEN <<s>>
    ELSE LET i == Min(Occurrences(s, <<sep>>))
         IN  <<SubSeq(s, 1, i - 1)>> \o Split(SubSeq(s, i + 1, Len(s)), sep)

\* number of non-overlapping occurrences of sub in s (s.count(sub))
RECURSIVE Count(_, _)
Count(s, sub) ==
    IF Occurrences(s, sub) = {} THEN 0
    ELSE 1 + Count(SubSeq(s, Min(Occurrences(s, sub)) + Len(sub), Len(s)), sub)

IsPrefix(p, s) == Len(p) <= Len(s) /\ SubSeq(s, 1, Len(p)) = p
Last(s) == s[Len(s)]
Range(s) == {s[i] : i \in 1..Len(s)}

\* ------------------------------------------------------------------------
\* Files
\* ------------------------------------------------------------------------
NoFile == [exists |-> FALSE, text |-> <<>>]
File(t) == [exists |-> TRUE, text |-> t]

\* ------------------------------------------------------------------------
\* Commands built by the program (argv lists)
\* ------------------------------------------------------------------------
CloneCmds ==
    << <<"git", "clone", "--filter=blob:none", "--no-checkout",
         "https://github.com/supabase/supabase.git">>,
       <<"git", "sparse-checkout", "init", "--cone">>,
       <<"git", "sparse-checkout", "set", "docker">>,
       <<"git", "checkout", "master">> >>
PullCmd == <<"git", "pull">>

\* variant: the fresh clone is pulled as well
clone_supabase_repo_cmds_pull_after_clone(exists) ==
    IF ~exists THEN CloneCmds \o <<PullCmd>> ELSE <<PullCmd>>

\* variant: the fresh clone is checked out without restricting the sparse checkout
clone_supabase_repo_cmds_no_sparse(exists) ==
    IF ~exists THEN <<CloneCmds[1], CloneCmds[4]>> ELSE <<PullCmd>>

\* clone_supabase_repo: the commands it will try, chosen by os.path.exists("supabase")
clone_supabase_repo_cmds(exists) ==
    IF ~exists THEN CloneCmds ELSE <<PullCmd>>

\* variant: the "none" sentinel is passed on like any other profile
ProfileArgs_no_sentinel(p) ==
    IF p # "" THEN <<"--profile", p>> ELSE <<>>

\* "if profile and profile != 'none'": the --profile argument pair
ProfileArgs(p) ==
    IF p # "" /\ p # "none" THEN <<"--profile", p>> ELSE <<>>

stop_existing_containers_cmd(p) ==
    <<"docker", "compose", "-p", "localai">> \o ProfileArgs(p)
        \o <<"-f", "docker-compose.yml", "down">>

start_supabase_cmd ==
    <<"docker", "compose", "-p", "localai", "-f",
      "supabase/docker/docker-compose.yml", "up", "-d">>

start_local_ai_cmd(p) ==
    <<"docker", "compose", "-p", "localai">> \o ProfileArgs(p)
        \o <<"-f", "docker-compose.yml", "up", "-d">>

\* variant: subprocess.run without check=True never raises
run_command_raises_unchecked(ok) == FALSE

\* run_command: subprocess.run(cmd, check=True) raises on a non-zero status
run_command_raises(ok) == ~ok

\* The log entries of a list of run_command calls made one after another in
\* directory cwd; oks[i] is whether the i-th command would exit with status 0.
\* The first call that raises ends the list.
RECURSIVE RunCommands(_, _, _)
RunCommands(argvs, oks, cwd) ==
    IF argvs = <<>> THEN <<>>
    ELSE <<[argv |-> Head(argvs), cwd |-> cwd, ok |-> Head(oks)]>>
         \o (IF run_command_raises(Head(oks)) THEN <<>>
             ELSE RunCommands(Tail(argvs), Tail(oks), cwd))

AnyRaised(entries) == \E i \in 1..Len(entries) : run_command_raises(entries[i].ok)

\* ------------------------------------------------------------------------
\* The git mirror directory "supabase"
\* ------------------------------------------------------------------------
NoMirror == [exists |-> FALSE, sparseInit |-> FALSE, sparseSet |-> FALSE, checkedOut |-> FALSE]

\* effect of one git command on the mirror
GitEffect(m, e) ==
    IF ~e.ok THEN m
    ELSE IF e.argv = CloneCmds[1] THEN [m EXCEPT !.exists = TRUE]
    ELSE IF e.argv = CloneCmds[2] THEN [m EXCEPT !.sparseInit = TRUE]
    ELSE IF e.argv = CloneCmds[3] THEN [m EXCEPT !.sparseSet = TRUE]
    ELSE IF e.argv = CloneCmds[4] THEN [m EXCEPT !.checkedOut = TRUE]
    ELSE m

RECURSIVE GitEffects(_, _)
GitEffects(m, entries) ==
    IF entries = <<>> THEN m ELSE GitEffects(GitEffect(m, Head(entries)), Tail(entries))

\* supabase/docker exists once the sparse set is "docker" and the branch is checked out
DockerDirExists(m) == m.exists /\ m.sparseSet /\ m.checkedOut

\* ------------------------------------------------------------------------
\* main(): the order of the steps
\* ------------------------------------------------------------------------
StepOrder == <<"sync", "env", "secret", "firstrun", "teardown", "phase1", "wait", "phase2">>
FatalSteps == {"sync", "env", "teardown", "phase1", "phase2"}
SoftSteps == {"secret", "firstrun"}

\* the statement of main() that follows a step which returned normally
NextStep(step) ==
    CASE step = "parse"    -> "sync"
      [] step = "sync"     -> "env"
      [] step = "env"      -> "secret"
      [] step = "secret"   -> "firstrun"
      [] step = "firstrun" -> "teardown"
      [] step = "teardown" -> "phase1"
      [] step = "phase1"   -> "wait"
      [] step = "wait"     -> "phase2"
      [] step = "phase2"   -> "done"

UncaughtExit == 1
ArgparseExit == 2

\* ------------------------------------------------------------------------
\* generate_searxng_secret_key
\* ------------------------------------------------------------------------
Systems == {"Windows", "Darwin", "Linux"}

\* two lowercase hex digits of one byte ("{0:x2}", openssl rand -hex)
HexByte(b) == <<HexDigits[(b \div 16) + 1], HexDigits[(b % 16) + 1]>>

RECURSIVE HexEncode(_)
HexEncode(bytes) ==
    IF Len(bytes) <= 1 THEN (IF bytes = <<>> THEN <<>> ELSE HexByte(bytes[1]))
    ELSE HexEncode(SubSeq(bytes, 1, Len(bytes) \div 2))
             \o HexEncode(SubSeq(bytes, Len(bytes) \div 2 + 1, Len(bytes)))

\* n bytes, the i-th being (a * i + b) % 256
RECURSIVE ByteString(_, _, _)
ByteString(n, a, b) ==
    IF n = 0 THEN <<>> ELSE Append(ByteString(n - 1, a, b), (a * n + b) % 256)

\* the values the random source may deliver: RandomBytes bytes each
RandomSources == {ByteString(RandomBytes, 0, 0), ByteString(RandomBytes, 37, 11)}

\* stdout of "openssl rand -hex 32"
OpensslStdout(bytes) == HexEncode(bytes) \o <<NL>>

\* random_key = check_output(...).decode('utf-8').strip()
RandomKey(bytes) == Strip(OpensslStdout(bytes))

\* variant: the substitution without the g flag replaces the first occurrence only
SedSubstitute_first_only(text, key) ==
    IF Contains(text, Placeholder)
    THEN LET i == CHOOSE j \in 1..Len(text) :
                      /\ SubSeq(text, j, j + Len(Placeholder) - 1) = Placeholder
                      /\ \A k \in 1..(j - 1) :
                            SubSeq(text, k, k + Len(Placeholder) - 1) # Placeholder
         IN  SubSeq(text, 1, i - 1) \o key
                 \o SubSeq(text, i + Len(Placeholder), Len(text))
    ELSE text

\* sed -i "s|ultrasecretkey|KEY|g": every occurrence on every line
SedSubstitute(text, key) == Replace(text, Placeholder, key)

\* PowerShell compares letters without regard to case
UpperLetters == <<"U","L","T","R","A","S","E","C","K","Y">>
LowerLetters == <<"u","l","t","r","a","s","e","c","k","y">>
LowerChar(c) ==
    IF \E i \in 1..Len(UpperLetters) : UpperLetters[i] = c
    THEN LowerLetters[CHOOSE i \in 1..Len(UpperLetters) : UpperLetters[i] = c]
    ELSE c
RECURSIVE LowerStr(_)
LowerStr(s) ==
    IF Len(s) <= 1 THEN (IF s = <<>> THEN <<>> ELSE <<LowerChar(s[1])>>)
    ELSE LowerStr(SubSeq(s, 1, Len(s) \div 2))
             \o LowerStr(SubSeq(s, Len(s) \div 2 + 1, Len(s)))

\* -replace: every occurrence, matched case-insensitively
RECURSIVE ReplaceCI(_, _, _)
ReplaceCI(s, old, new) ==
    LET occ == Occurrences(LowerStr(s), LowerStr(old))
    IN  IF occ = {} THEN s
        ELSE SubSeq(s, 1, Min(occ) - 1) \o new
                 \o ReplaceCI(SubSeq(s, Min(occ) + Len(old), Len(s)), old, new)

\* a line without the carriage return that may end it
ChopCR(line) ==
    IF line # <<>> /\ Last(line) = CR THEN SubSeq(line, 1, Len(line) - 1) ELSE line

\* Get-Content: the lines of the file without their terminators
GetContent(text) ==
    LET f == Split(text, NL)
    IN  IF text # <<>> /\ Last(text) = NL THEN SubSeq(f, 1, Len(f) - 1) ELSE f

\* (Get-Content f) -replace 'ultrasecretkey', $secretKey | Set-Content f:
\* every line is substituted and written back followed by the platform's newline
RECURSIVE SubstituteLines(_, _)
SubstituteLines(lines, key) ==
    IF lines = <<>> THEN <<>>
    ELSE ReplaceCI(ChopCR(Head(lines)), Placeholder, key) \o <<CR, NL>>
             \o SubstituteLines(Tail(lines), key)

PowerShellSubstitute(text, key) == SubstituteLines(GetContent(text), key)

\* variant: the outer handler lets a command error through
secret_key_escapes_cmd_error(copyErr, cmdErr) == cmdErr

\* Whether an exception leaves generate_searxng_secret_key: the copy error is
\* caught by "except Exception ... return", a command error by the outer handler.
secret_key_escapes(copyErr, cmdErr) == FALSE

\* The step as a function of what it finds and of how its commands fare.
\*   base, settings : the two files        sys      : platform.system()
\*   bytes          : the random value     copyOk   : shutil.copyfile succeeds
\*   genOk, subOk   : the random generation / the substitution succeeds
\* Result: the settings file afterwards and what happened.
generate_searxng_secret_key(base, settings, sys, bytes, copyOk, genOk, subOk) ==
    IF ~base.exists
    THEN [settings |-> settings, warned |-> TRUE, copyErr |-> FALSE,
          cmdErr |-> FALSE, substituted |-> FALSE]
    ELSE IF ~settings.exists /\ ~copyOk
    THEN [settings |-> settings, warned |-> FALSE, copyErr |-> TRUE,
          cmdErr |-> FALSE, substituted |-> FALSE]
    ELSE
      LET s1 == IF ~settings.exists THEN File(base.text) ELSE settings
      IN  IF sys = "Windows"
          THEN IF genOk /\ subOk
               THEN [settings |-> File(PowerShellSubstitute(s1.text, HexEncode(bytes))),
                     warned |-> FALSE, copyErr |-> FALSE, cmdErr |-> FALSE,
                     substituted |-> TRUE]
               ELSE [settings |-> s1, warned |-> FALSE, copyErr |-> FALSE,
                     cmdErr |-> TRUE, substituted |-> FALSE]
          ELSE IF genOk /\ subOk
               THEN [settings |-> File(SedSubstitute(s1.text, RandomKey(bytes))),
                     warned |-> FALSE, copyErr |-> FALSE, cmdErr |-> FALSE,
                     substituted |-> TRUE]
               ELSE [settings |-> s1, warned |-> FALSE, copyErr |-> FALSE,
                     cmdErr |-> TRUE, substituted |-> FALSE]

\* ------------------------------------------------------------------------
\* check_and_fix_docker_compose_for_searxng
\* ------------------------------------------------------------------------
ContainerStates == {"none", "running_nomarker", "running_marker"}

\* stdout of: docker ps --filter name=searxng --format {{.Names}}
DockerPsStdout(c) == IF c = "none" THEN <<>> ELSE ContainerName \o <<NL>>

\* stdout of: docker exec NAME sh -c "[ -f /etc/searxng/uwsgi.ini ] && echo 'found' || echo 'not_found'"
\* (mode "nonzero": the exec itself exits non-zero and prints nothing on stdout)
DockerExecStdout(c, mode) ==
    IF mode = "nonzero" \/ c = "none" THEN <<>>
    ELSE IF c = "running_marker" THEN EchoFound ELSE EchoNotFound

\* searxng_containers = stdout.strip().split('\n'); any(container for ... if container)
AnyContainer(psStdout) ==
    LET names == Split(Strip(psStdout), NL)
    IN  \E i \in 1..Len(names) : names[i] # <<>>

\* The value of is_first_run after the inspection block.
\*   psMode   : "ok" | "raise"             (docker ps, check=True)
\*   execMode : "ok" | "nonzero" | "raise" (docker exec, check=False)
is_first_run(c, psMode, execMode) ==
    IF psMode = "raise" THEN TRUE
    ELSE IF AnyContainer(DockerPsStdout(c))
         THEN IF execMode = "raise" THEN TRUE
              ELSE IF Contains(DockerExecStdout(c, execMode), FoundText) THEN FALSE
                   ELSE TRUE
         ELSE TRUE

\* The text the step wants in the compose file, and whether it opens it for writing.
AdjustCompose(content, firstRun) ==
    IF firstRun /\ Contains(content, CapDropActive)
    THEN [text |-> Replace(content, CapDropActive, CapDropCommented), write |-> TRUE]
    ELSE IF ~firstRun /\ Contains(content, CapDropCommented)
    THEN [text |-> Replace(content, CapDropCommented, CapDropActive), write |-> TRUE]
    ELSE [text |-> content, write |-> FALSE]

\* Whether an exception leaves check_and_fix_docker_compose_for_searxng: inspection
\* errors are caught by the inner handler, file errors by the outer one.
compose_fix_escapes(ioErr, inspectErr) == FALSE

\* The step as a function of the compose file, the container and how its I/O fares.
check_and_fix_docker_compose_for_searxng(compose, c, psMode, execMode, readOk, writeOk) ==
    IF ~compose.exists
    THEN [compose |-> compose, ioErr |-> FALSE, firstRun |-> TRUE, decided |-> FALSE,
          wrote |-> FALSE]
    ELSE IF ~readOk
    THEN [compose |-> compose, ioErr |-> TRUE, firstRun |-> TRUE, decided |-> FALSE,
          wrote |-> FALSE]
    ELSE
      LET fr  == is_first_run(c, psMode, execMode)
          adj == AdjustCompose(compose.text, fr)
      IN  IF adj.write /\ ~writeOk
          THEN [compose |-> compose, ioErr |-> TRUE, firstRun |-> fr, decided |-> TRUE,
                wrote |-> FALSE]
          ELSE [compose |-> File(adj.text), ioErr |-> FALSE, firstRun |-> fr,
                decided |-> TRUE, wrote |-> adj.write]

\* ------------------------------------------------------------------------
\* File contents the runs start from
\* ------------------------------------------------------------------------
ComposePrefix == <<"s","e","a","r","x","n","g",":",NL," "," ">>
ComposeSuffix == <<NL>>
ComposeWith(directive) == ComposePrefix \o directive \o ComposeSuffix
ComposeOther == <<"s","e","a","r","x","n","g",":",NL," "," ","i","m","a","g","e",":"," ","x",NL>>
SettingsTemplate == <<"s","e","c","r","e","t","_","k","e","y",":"," ","u","l","t","r","a","s","e","c","r","e","t","k","e","y",NL>>
SettingsTwice == <<"a",":"," ","u","l","t","r","a","s","e","c","r","e","t","k","e","y"," ","b",":"," ","u","l","t","r","a","s","e","c","r","e","t","k","e","y",NL>>
SettingsUpper == <<"s","e","c","r","e","t","_","k","e","y",":"," ","U","L","T","R","A","S","E","C","R","E","T","K","E","Y",NL>>

InitialSettings == {NoFile, File(SettingsTemplate), File(SettingsTwice), File(SettingsUpper)}
InitialBase == {NoFile, File(SettingsTemplate)}
InitialCompose == {NoFile, File(ComposeWith(CapDropActive)), File(ComposeOther)}

\* what the command line may carry after --profile ("" : the option is absent)
ArgInputs == ProfileChoices \cup {"", "tpu"}

\* ------------------------------------------------------------------------
\* State
\* ------------------------------------------------------------------------
VARIABLES
    pc,              \* the statement of main() the current run is at
    run,             \* number of the current run
    profile,         \* args.profile
    system,          \* platform.system()
    mirror,          \* the directory "supabase"
    rootEnv,         \* ".env" exists
    dockerEnv,       \* "supabase/docker/.env" has been written
    base,            \* searxng/settings-base.yml
    settings,        \* searxng/settings.yml
    compose,         \* docker-compose.yml
    container,       \* the SearXNG container
    cmds,            \* run_command calls of the current run, in order
    trace,           \* steps the current run has entered, in order
    failedStep,      \* the step whose exception ended the run ("" : none)
    exitCode,        \* exit status of the run once pc is "done" or "aborted"
    slept,           \* seconds slept by the current run
    syncHadDir,      \* what os.path.exists("supabase") gave the current run
    abortedMidClone, \* some run aborted after its clone and before its checkout ended
    secretObs,       \* what generate_searxng_secret_key found and did in this run
    fixObs           \* what check_and_fix_docker_compose_for_searxng found and did

vars == <<pc, run, profile, system, mirror, rootEnv, dockerEnv, base, settings, compose,
          container, cmds, trace, failedStep, exitCode, slept, syncHadDir,
          abortedMidClone, secretObs, fixObs>>

perRun == <<cmds, trace, failedStep, exitCode, slept, syncHadDir, secretObs, fixObs>>
disk == <<mirror, rootEnv, dockerEnv, base, settings, compose>>

NoSecretObs ==
    [ran |-> FALSE, before |-> NoFile, baseBefore |-> NoFile, key |-> <<>>,
     warned |-> FALSE, copyErr |-> FALSE, cmdErr |-> FALSE, substituted |-> FALSE]
NoFixObs ==
    [ran |-> FALSE, before |-> NoFile, container |-> "none", inspectErr |-> FALSE,
     ioErr |-> FALSE, firstRun |-> TRUE, decided |-> FALSE, wrote |-> FALSE]

\* The state when the script is started for the first time, the platform and the
\* files on disk drawn from the given sets.
InitWith(systems, rootEnvs, bases, settingss, composes) ==
    /\ pc = "parse"
    /\ run = 1
    /\ profile = ""
    /\ system \in systems
    /\ mirror = NoMirror
    /\ rootEnv \in rootEnvs
    /\ dockerEnv = FALSE
    /\ base \in bases
    /\ settings \in settingss
    /\ compose \in composes
    /\ container = "none"
    /\ cmds = <<>>
    /\ trace = <<>>
    /\ failedStep = ""
    /\ exitCode = 0
    /\ slept = 0
    /\ syncHadDir = FALSE
    /\ abortedMidClone = FALSE
    /\ secretObs = NoSecretObs
    /\ fixObs = NoFixObs

\* every platform, every combination of present and missing files, no settings file yet
Init == InitWith(Systems, BOOLEAN, InitialBase, {NoFile}, InitialCompose)

\* the settings file in every initial form; the compose file plays no part
InitSecret == InitWith(Systems, {TRUE}, InitialBase, InitialSettings, {NoFile})

\* the compose file in every initial form; the settings files play no part
InitToggle == InitWith({"Linux"}, {TRUE}, {NoFile}, {NoFile}, InitialCompose)

\* an uncaught exception in step: traceback, exit status 1
Abort(step) ==
    /\ pc' = "aborted"
    /\ failedStep' = step
    /\ exitCode' = UncaughtExit

\* step returned normally
Continue(step) ==
    /\ pc' = NextStep(step)
    /\ failedStep' = failedStep
    /\ exitCode' = exitCode

\* ------------------------------------------------------------------------
\* Actions: one per statement of main()
\* ------------------------------------------------------------------------

\* parser.parse_args(): an unknown choice prints usage and exits with status 2
ParseArgs ==
    /\ pc = "parse"
    /\ \E arg \in ArgInputs :
         IF arg = "" \/ arg \in ProfileChoices
         THEN /\ profile' = (IF arg = "" THEN DefaultProfile ELSE arg)
              /\ pc' = NextStep("parse")
              /\ exitCode' = exitCode
         ELSE /\ profile' = profile
              /\ pc' = "aborted"
              /\ exitCode' = ArgparseExit
    /\ UNCHANGED <<run, system, disk, container, cmds, trace, failedStep, slept,
                   syncHadDir, abortedMidClone, secretObs, fixObs>>

\* k exit statuses, the first n of them 0
RECURSIVE FirstOk(_, _)
FirstOk(n, k) == IF k = 0 THEN <<>> ELSE Append(FirstOk(n, k - 1), k <= n)

\* clone_supabase_repo(): n of the commands it tries exit with status 0
CloneSupabaseRepo ==
    /\ pc = "sync"
    /\ LET argvs == clone_supabase_repo_cmds(mirror.exists)
       IN  \E n \in 0..Len(argvs) :
             LET oks     == FirstOk(n, Len(argvs))
                 first   == RunCommands(<<Head(argvs)>>, <<Head(oks)>>, ".")
                 entries == IF mirror.exists
                            THEN RunCommands(argvs, oks, "supabase")
                            ELSE first \o (IF AnyRaised(first) THEN <<>>
                                           ELSE RunCommands(Tail(argvs), Tail(oks), "supabase"))
             IN  /\ cmds' = cmds \o entries
                 /\ mirror' = GitEffects(mirror, entries)
                 /\ abortedMidClone' =
                        (abortedMidClone \/ (~mirror.exists /\ AnyRaised(entries)
                                             /\ GitEffects(mirror, entries).exists))
                 /\ IF AnyRaised(entries) THEN Abort("sync") ELSE Continue("sync")
    /\ syncHadDir' = mirror.exists
    /\ trace' = Append(trace, "sync")
    /\ UNCHANGED <<run, profile, system, rootEnv, dockerEnv, base, settings, compose,
                   container, slept, secretObs, fixObs>>

\* prepare_supabase_env(): shutil.copyfile(".env", "supabase/docker/.env")
PrepareSupabaseEnv ==
    /\ pc = "env"
    /\ \E ioOk \in BOOLEAN :
         LET ok == rootEnv /\ DockerDirExists(mirror) /\ ioOk
         IN  /\ dockerEnv' = (dockerEnv \/ ok)
             /\ IF ok THEN Continue("env") ELSE Abort("env")
    /\ trace' = Append(trace, "env")
    /\ UNCHANGED <<run, profile, system, mirror, rootEnv, base, settings, compose,
                   container, cmds, slept, syncHadDir, abortedMidClone, secretObs, fixObs>>

\* generate_searxng_secret_key()
GenerateSearxngSecretKey ==
    /\ pc = "secret"
    /\ \E bytes \in RandomSources, copyOk \in BOOLEAN, genOk \in BOOLEAN, subOk \in BOOLEAN :
         LET r == generate_searxng_secret_key(base, settings, system, bytes,
                                              copyOk, genOk, subOk)
         IN  /\ settings' = r.settings
             /\ secretObs' = [ran |-> TRUE, before |-> settings, baseBefore |-> base,
                              key |-> IF r.substituted THEN HexEncode(bytes) ELSE <<>>,
                              warned |-> r.warned, copyErr |-> r.copyErr,
                              cmdErr |-> r.cmdErr, substituted |-> r.substituted]
             /\ IF secret_key_escapes(r.copyErr, r.cmdErr)
                THEN Abort("secret") ELSE Continue("secret")
    /\ trace' = Append(trace, "secret")
    /\ UNCHANGED <<run, profile, system, mirror, rootEnv, dockerEnv, base, compose,
                   container, cmds, slept, syncHadDir, abortedMidClone, fixObs>>

\* check_and_fix_docker_compose_for_searxng()
CheckAndFixDockerCompose ==
    /\ pc = "firstrun"
    /\ \E psMode \in {"ok", "raise"}, execMode \in {"ok", "nonzero", "raise"},
          readOk \in BOOLEAN, writeOk \in BOOLEAN :
         LET r == check_and_fix_docker_compose_for_searxng(compose, container, psMode,
                                                           execMode, readOk, writeOk)
             inspectErr == psMode = "raise" \/ (container # "none" /\ execMode # "ok")
         IN  /\ compose' = r.compose
             /\ fixObs' = [ran |-> TRUE, before |-> compose, container |-> container,
                           inspectErr |-> (r.decided /\ inspectErr), ioErr |-> r.ioErr,
                           firstRun |-> r.firstRun, decided |-> r.decided,
                           wrote |-> r.wrote]
             /\ IF compose_fix_escapes(r.ioErr, r.decided /\ inspectErr)
                THEN Abort("firstrun") ELSE Continue("firstrun")
    /\ trace' = Append(trace, "firstrun")
    /\ UNCHANGED <<run, profile, system, mirror, rootEnv, dockerEnv, base, settings,
                   container, cmds, slept, syncHadDir, abortedMidClone, secretObs>>

\* stop_existing_containers(args.profile): "down" removes the project's containers
StopExistingContainers ==
    /\ pc = "teardown"
    /\ \E ok \in BOOLEAN :
         LET entries == RunCommands(<<stop_existing_containers_cmd(profile)>>, <<ok>>, ".")
         IN  /\ cmds' = cmds \o entries
             /\ container' = (IF ok THEN "none" ELSE container)
             /\ IF AnyRaised(entries) THEN Abort("teardown") ELSE Continue("teardown")
    /\ trace' = Append(trace, "teardown")
    /\ UNCHANGED <<run, profile, system, disk, slept, syncHadDir, abortedMidClone,
                   secretObs, fixObs>>

\* start_supabase()
StartSupabase ==
    /\ pc = "phase1"
    /\ \E ok \in BOOLEAN :
         LET entries == RunCommands(<<start_supabase_cmd>>, <<ok>>, ".")
         IN  /\ cmds' = cmds \o entries
             /\ IF AnyRaised(entries) THEN Abort("phase1") ELSE Continue("phase1")
    /\ trace' = Append(trace, "phase1")
    /\ UNCHANGED <<run, profile, system, disk, container, slept, syncHadDir,
                   abortedMidClone, secretObs, fixObs>>

\* time.sleep(10)
WaitForSupabase ==
    /\ pc = "wait"
    /\ slept' = slept + SleepSeconds
    /\ trace' = Append(trace, "wait")
    /\ Continue("wait")
    /\ UNCHANGED <<run, profile, system, disk, container, cmds, syncHadDir,
                   abortedMidClone, secretObs, fixObs>>

\* start_local_ai(args.profile): "up -d" creates the SearXNG container if there is none
StartLocalAi ==
    /\ pc = "phase2"
    /\ \E ok \in BOOLEAN :
         LET entries == RunCommands(<<start_local_ai_cmd(profile)>>, <<ok>>, ".")
         IN  /\ cmds' = cmds \o entries
             /\ container' = (IF ok /\ container = "none" THEN "running_nomarker"
                              ELSE container)
             /\ IF AnyRaised(entries) THEN Abort("phase2") ELSE Continue("phase2")
    /\ trace' = Append(trace, "phase2")
    /\ UNCHANGED <<run, profile, system, disk, slept, syncHadDir, abortedMidClone,
                   secretObs, fixObs>>

\* ------------------------------------------------------------------------
\* The world between and around the runs
\* ------------------------------------------------------------------------

\* the running SearXNG container finishes its initialization and writes uwsgi.ini
ContainerInitializes ==
    /\ container = "running_nomarker"
    /\ container' = "running_marker"
    /\ UNCHANGED <<pc, run, profile, system, disk, perRun, abortedMidClone>>

\* the container is stopped from outside the script (docker compose down, a crash)
ContainerStops ==
    /\ pc \in {"done", "aborted"}
    /\ container # "none"
    /\ container' = "none"
    /\ UNCHANGED <<pc, run, profile, system, disk, perRun, abortedMidClone>>

\* the script is started again
NextRun ==
    /\ pc \in {"done", "aborted"}
    /\ run < MaxRuns
    /\ run' = run + 1
    /\ pc' = "parse"
    /\ profile' = ""
    /\ cmds' = <<>>
    /\ trace' = <<>>
    /\ failedStep' = ""
    /\ exitCode' = 0
    /\ slept' = 0
    /\ syncHadDir' = FALSE
    /\ secretObs' = NoSecretObs
    /\ fixObs' = NoFixObs
    /\ UNCHANGED <<system, disk, container, abortedMidClone>>

Next ==
    \/ ParseArgs
    \/ CloneSupabaseRepo
    \/ PrepareSupabaseEnv
    \/ GenerateSearxngSecretKey
    \/ CheckAndFixDockerCompose
    \/ StopExistingContainers
    \/ StartSupabase
    \/ WaitForSupabase
    \/ StartLocalAi
    \/ ContainerInitializes
    \/ ContainerStops
    \/ NextRun

Spec == Init /\ [][Next]_vars
SpecSecret == InitSecret /\ [][Next]_vars
SpecToggle == InitToggle /\ [][Next]_vars

\* ------------------------------------------------------------------------
\* Observations used by the properties
\* ------------------------------------------------------------------------
Entered(step) == step \in Range(trace)
Passed(step) == Entered(step) /\ failedStep # step
IsGit(e) == e.argv[1] = "git"
IsDocker(e) == e.argv[1] = "docker"
GitCmds == SelectSeq(cmds, IsGit)
DockerCmds == SelectSeq(cmds, IsDocker)
RECURSIVE Argvs(_)
Argvs(entries) ==
    IF entries = <<>> THEN <<>> ELSE <<Head(entries).argv>> \o Argvs(Tail(entries))
\* the argument that follows flag in argv, <<>> when the flag is absent
ArgAfter(argv, flag) ==
    IF \E i \in 1..(Len(argv) - 1) : argv[i] = flag
    THEN <<argv[(CHOOSE i \in 1..(Len(argv) - 1) : argv[i] = flag) + 1]>>
    ELSE <<>>
DockerSteps == SelectSeq(trace, LAMBDA st : st \in {"teardown", "phase1", "phase2"})
IsHexKey(k) == Len(k) = 2 * RandomBytes /\ Range(k) \subseteq Range(HexDigits)
Configured(m) == m.exists /\ m.sparseInit /\ m.sparseSet /\ m.checkedOut

\* ------------------------------------------------------------------------
\* Properties
\* ------------------------------------------------------------------------

\* C1: the steps of a run are entered in the fixed order sync, env, secret,
\* firstrun, teardown, phase1, wait (10 seconds), phase2; a failing command or a
\* failing fatal step ends the run with a non-zero exit status and is the last
\* thing the run does, so phase2 is entered only after teardown and phase1
\* succeeded and the delay elapsed.
C1_FixedOrderAndAbort ==
    /\ IsPrefix(trace, StepOrder)
    /\ pc \in Range(StepOrder) => trace \o <<pc>> = SubSeq(StepOrder, 1, Len(trace) + 1)
    /\ \A i \in 1..Len(cmds) :
         ~cmds[i].ok => i = Len(cmds) /\ pc = "aborted" /\ exitCode # 0
                        /\ Last(trace) \in FatalSteps
    /\ failedStep # "" =>
         pc = "aborted" /\ exitCode # 0 /\ failedStep \in FatalSteps
         /\ trace # <<>> /\ Last(trace) = failedStep
    /\ pc = "aborted" => exitCode # 0
    /\ Entered("phase2") =>
         /\ SubSeq(trace, 1, 7) = SubSeq(StepOrder, 1, 7)
         /\ slept = SleepSeconds
         /\ Len(DockerCmds) = 3 /\ DockerCmds[1].ok /\ DockerCmds[2].ok
    /\ ~Entered("wait") => slept = 0
    /\ pc = "done" => trace = StepOrder /\ exitCode = 0 /\ \A i \in 1..Len(cmds) : cmds[i].ok

\* a run that stopped at a failed teardown: nothing after it was entered
C1_Witness ==
    /\ pc = "aborted" /\ failedStep = "teardown"
    /\ trace = SubSeq(StepOrder, 1, 5)

\* C2: once sync and env succeeded, the two soft-fail steps return normally
\* whatever goes wrong inside them: from "secret" the run can only move on to
\* "firstrun", from "firstrun" only to "teardown", never to an abort.
C2_SoftStepsNeverAbort ==
    [][ /\ pc = "secret" => pc' \in {"secret", "firstrun"}
        /\ pc = "firstrun" => pc' \in {"firstrun", "teardown"}
        /\ pc \in SoftSteps => failedStep' = "" /\ exitCode' = 0 ]_vars

\* teardown is reached after both soft steps ran into an error
C2_Witness ==
    /\ pc = "teardown"
    /\ secretObs.ran /\ secretObs.cmdErr
    /\ fixObs.ran /\ fixObs.ioErr

\* C3: is_first_run is false only when the container is running, the marker file
\* is present in it and no inspection command erred; in every other case it is true.
C3_FirstRunDetection ==
    fixObs.decided =>
        (fixObs.firstRun = ~(fixObs.container = "running_marker" /\ ~fixObs.inspectErr))

\* C4: with no running container the step decides "first run", comments out an
\* active directive, leaves a file that already holds the commented variant
\* untouched, and its result is a fixed point of the first-run adjustment.
C4_FirstRunIdempotent ==
    (fixObs.decided /\ fixObs.container = "none" /\ ~fixObs.ioErr) =>
        /\ fixObs.firstRun
        /\ Contains(fixObs.before.text, CapDropCommented) =>
               compose = fixObs.before /\ ~fixObs.wrote
        /\ fixObs.before.text = ComposeWith(CapDropActive) =>
               compose.text = ComposeWith(CapDropCommented)
        /\ AdjustCompose(compose.text, TRUE).text = compose.text

\* C5: a compose file that started with the active directive always holds the
\* directive line in one of its two forms, active or commented once.
C5_TwoTextualStates ==
    Contains(compose.text, CapDropActive) =>
        compose.text \in {ComposeWith(CapDropActive), ComposeWith(CapDropCommented)}

\* C6: with a running, initialized container the step leaves the active directive
\* in the compose file and no commented variant; an already active file is not written.
C6_RestoreActive ==
    (fixObs.decided /\ fixObs.container = "running_marker" /\ ~fixObs.inspectErr
       /\ ~fixObs.ioErr /\ Contains(fixObs.before.text, CapDropActive)) =>
        /\ compose.text = ComposeWith(CapDropActive)
        /\ ~Contains(compose.text, CapDropCommented)
        /\ fixObs.before.text = ComposeWith(CapDropActive) =>
               ~fixObs.wrote /\ compose = fixObs.before

\* C7 as stated: an existing settings file with the placeholder is substituted
\* whenever no command fails, and the step warns and returns only when both the
\* settings file and the base template are absent.
C7_Original ==
    secretObs.ran =>
        /\ (secretObs.before.exists /\ Contains(secretObs.before.text, Placeholder)
              /\ ~secretObs.cmdErr) =>
               /\ ~Contains(settings.text, Placeholder)
               /\ IsHexKey(secretObs.key) /\ Contains(settings.text, secretObs.key)
        /\ secretObs.warned => ~secretObs.before.exists /\ ~secretObs.baseBefore.exists

\* C7 amended: the step warns and returns without touching the settings file
\* exactly when the base template is absent, whether or not the settings file
\* exists; with the template present, an existing settings file that contains the
\* placeholder holds, after commands that succeed, no placeholder and the
\* generated 64-character hex key once for each placeholder; an absent settings
\* file is first created as a copy of the template.
C7_Amended ==
    secretObs.ran =>
        /\ secretObs.warned = ~secretObs.baseBefore.exists
        /\ secretObs.warned => settings = secretObs.before /\ ~secretObs.substituted
        /\ (secretObs.baseBefore.exists /\ secretObs.before.exists
              /\ Contains(secretObs.before.text, Placeholder) /\ ~secretObs.cmdErr) =>
               /\ secretObs.substituted
               /\ ~Contains(settings.text, Placeholder)
               /\ IsHexKey(secretObs.key)
               /\ Count(settings.text, secretObs.key)
                     = Count(secretObs.before.text, Placeholder)
        /\ (secretObs.baseBefore.exists /\ ~secretObs.before.exists) =>
               IF secretObs.copyErr THEN ~settings.exists
               ELSE /\ settings.exists
                    /\ secretObs.cmdErr => settings.text = secretObs.baseBefore.text
                    /\ ~secretObs.cmdErr => ~Contains(settings.text, Placeholder)
                                            /\ Contains(settings.text, secretObs.key)

\* an existing settings file with the placeholder has just been substituted
C7_Witness ==
    /\ secretObs.ran /\ secretObs.substituted
    /\ secretObs.before.exists /\ Count(secretObs.before.text, Placeholder) = 2
    /\ Contains(settings.text, secretObs.key)

\* C8: teardown and phase 2 carry "--profile P" exactly when P is not "none",
\* phase 1 never does; all three use project "localai"; teardown and phase 2 act
\* on docker-compose.yml, phase 1 on supabase/docker/docker-compose.yml.
C8_ProfileAndProject ==
    /\ Len(DockerCmds) = Len(DockerSteps)
    /\ \A i \in 1..Len(DockerCmds) :
         LET a == DockerCmds[i].argv
             st == DockerSteps[i]
         IN  /\ SubSeq(a, 1, 2) = <<"docker", "compose">>
             /\ ArgAfter(a, "-p") = <<"localai">>
             /\ Cardinality({j \in 1..Len(a) : a[j] = "--profile"}) <= 1
             /\ st \in {"teardown", "phase2"} =>
                  /\ ArgAfter(a, "--profile") = (IF profile = "none" THEN <<>> ELSE <<profile>>)
                  /\ ("--profile" \in Range(a)) = (profile # "none")
                  /\ ArgAfter(a, "-f") = <<"docker-compose.yml">>
             /\ st = "teardown" => Last(a) = "down"
             /\ st = "phase2" => SubSeq(a, Len(a) - 1, Len(a)) = <<"up", "-d">>
             /\ st = "phase1" =>
                  /\ "--profile" \notin Range(a)
                  /\ ArgAfter(a, "-f") = <<"supabase/docker/docker-compose.yml">>
                  /\ SubSeq(a, Len(a) - 1, Len(a)) = <<"up", "-d">>

\* a complete run under the "none" sentinel
C8_Witness ==
    /\ pc = "done" /\ profile = "none" /\ Len(DockerCmds) = 3

\* C9: the git commands of a run depend only on whether "supabase" existed: if
\* not, they are the clone, sparse-checkout init --cone, sparse-checkout set
\* docker and checkout master, in this order (cut short only by a failure) and
\* no pull; if it existed, exactly one pull and nothing else.
C9_SyncCommands ==
    /\ ~Entered("sync") => GitCmds = <<>>
    /\ Entered("sync") =>
         IF syncHadDir
         THEN Argvs(GitCmds) = << <<"git", "pull">> >>
         ELSE /\ GitCmds # <<>>
              /\ IsPrefix(Argvs(GitCmds), CloneCmds)
              /\ Passed("sync") => Argvs(GitCmds) = CloneCmds
              /\ \A i \in 1..Len(GitCmds) : "pull" \notin Range(GitCmds[i].argv)

\* a later run found the mirror and pulled
C9_Witness ==
    /\ Passed("sync") /\ syncHadDir /\ Len(GitCmds) = 1

\* C10 as stated: whenever a run has completed Repository Sync, the mirror is
\* sparse-configured and checked out.
C10_Original ==
    Passed("sync") => mirror.sparseSet /\ mirror.checkedOut

\* C10 amended: a run that completes Repository Sync has a configured mirror
\* exactly when no run so far aborted between a successful clone and the end of
\* the branch checkout; a run that found no mirror always leaves it configured.
C10_Amended ==
    Passed("sync") =>
        /\ Configured(mirror) = ~abortedMidClone
        /\ ~syncHadDir => Configured(mirror)

\* a run passed sync by pulling a mirror an aborted run had left unconfigured
C10_Witness ==
    /\ Passed("sync") /\ syncHadDir /\ abortedMidClone /\ ~mirror.sparseSet

====
